---- MODULE Spec2Model ----
(***************************************************************************)
(* A state-machine model of src/app.py: a Flask chat application that      *)
(* keeps users, chat sessions and chat messages in PostgreSQL and proxies  *)
(* messages to a generative model.                                         *)
(*                                                                         *)
(* The database tables are sets of rows, the SERIAL sequences are          *)
(* counters that are never rolled back, the Flask cookie session of each   *)
(* client is a record, and the handlers whose interleavings matter         *)
(* (register, ask) are split at the points where another request can run.  *)
(* Strings are sequences of one-character strings, so that strip() and     *)
(* lower() are computed rather than assumed.                               *)
(***************************************************************************)
EXTENDS Integers, Sequences, FiniteSets, TLC

\* ------------------------------------------------------------------ bounds
MaxUserId == 2
MaxSessionId == 3
MaxMessageId == 2
MaxClock == 1
MaxFaults == 1
MaxRequests == 4

Clients == {1, 2}

\* ------------------------------------------------------- program constants
\* len(password) < 6
MinPasswordLen == 6
\* session.get(key) of a key the cookie does not hold; SERIAL ids start at 1
None == 0

\* ------------------------------------------------------------------ inputs
UsernameInputs == {<<" ">>, <<"a">>, <<"a", " ">>, <<"b">>}
Secret == <<"s", "e", "c", "r", "e", "t">>
PasswordInputs == {<<>>, <<"p", "w">>, Secret}
EmailInputs == {<<>>, <<"e">>}
MessageInputs == {<<>>, <<" ">>, <<" ", "h", "i">>, <<"E", "x", "i", "t">>}
Replies == {<<"o", "k">>}
\* get_db_connection() outcome, and the outcome of a statement or commit:
\* "error" leaves the connection usable (rollback works), "lost" breaks it
\* (rollback raises as well)
StatementOutcomes == {"ok", "error", "lost"}

\* ----------------------------------------------------------------- strings
IsSpace(ch) == ch = " "

RECURSIVE LStrip(_)
LStrip(s) == IF s = <<>> THEN s
             ELSE IF IsSpace(Head(s)) THEN LStrip(Tail(s)) ELSE s

RECURSIVE RStrip(_)
RStrip(s) == IF s = <<>> THEN s
             ELSE IF IsSpace(s[Len(s)]) THEN RStrip(SubSeq(s, 1, Len(s) - 1)) ELSE s

\* An input taken as it was typed.
NoStrip(s) == s

\* str.strip()
Strip(s) == RStrip(LStrip(s))

LowerChar(ch) == CASE ch = "E" -> "e"
                   [] ch = "X" -> "x"
                   [] ch = "I" -> "i"
                   [] ch = "T" -> "t"
                   [] OTHER -> ch

\* str.lower()
Lower(s) == [i \in 1..Len(s) |-> LowerChar(s[i])]

Exit == <<"e", "x", "i", "t">>

\* generate_password_hash / check_password_hash
generate_password_hash(password) == [method |-> "hash", of |-> password]
check_password_hash(pwhash, password) == pwhash = generate_password_hash(password)

\* ------------------------------------------------------------------- state
VARIABLES
  users,                 \* rows of table users
  chat_sessions,         \* rows of table chat_sessions
  chat_messages,         \* rows of table chat_messages
  users_id_seq,          \* last value of the SERIAL sequence of users.id
  chat_sessions_id_seq,  \* last value of the SERIAL sequence of chat_sessions.id
  chat_messages_id_seq,  \* last value of the SERIAL sequence of chat_messages.id
  clock,                 \* CURRENT_TIMESTAMP
  model,                 \* TRUE when genai.GenerativeModel(...) succeeded at start-up
  session,               \* the Flask cookie session of each client
  pc,                    \* where each client's request in progress stands
  req,                   \* the locals of each client's request in progress
  last,                  \* the response being returned, and to whom
  faults,                \* database failures so far
  requests               \* requests received so far

vars == <<users, chat_sessions, chat_messages, users_id_seq, chat_sessions_id_seq,
          chat_messages_id_seq, clock, model, session, pc, req, last, faults,
          requests>>

db == <<users, chat_sessions, chat_messages>>
seqs == <<users_id_seq, chat_sessions_id_seq, chat_messages_id_seq>>

EmptySession == [user_id |-> None, username |-> <<>>, session_id |-> None]

NoRequest == [username |-> <<>>, password |-> <<>>, email |-> <<>>,
              user_id |-> None, session_id |-> None, user_input |-> <<>>,
              chat_history |-> <<>>, conn |-> "none", tx_time |-> 0,
              response_text |-> <<>>, ai_calls |-> 0,
              has_message |-> FALSE, message |-> <<>>]

NoResponse == [client |-> 0, op |-> "none", kind |-> "none", reason |-> "none",
               body |-> <<>>, for_session |-> None, messages |-> <<>>, lists |-> <<>>,
               ai_calls |-> 0, saved |-> FALSE, conn_open |-> FALSE,
               username |-> <<>>, session_arg |-> None,
               is_json |-> TRUE, has_message |-> FALSE, message |-> <<>>]

\* The response of handler op to client c.
Response(c, op, kind, reason) ==
  [NoResponse EXCEPT !.client = c, !.op = op, !.kind = kind, !.reason = reason]

Init ==
  /\ users = {}
  /\ chat_sessions = {}
  /\ chat_messages = {}
  /\ users_id_seq = 0
  /\ chat_sessions_id_seq = 0
  /\ chat_messages_id_seq = 0
  /\ clock = 0
  /\ model \in BOOLEAN
  /\ session = [c \in Clients |-> EmptySession]
  /\ pc = [c \in Clients |-> "idle"]
  /\ req = [c \in Clients |-> NoRequest]
  /\ last = NoResponse
  /\ faults = 0
  /\ requests = 0


\* ----------------------------------------------------------------- queries
\* SELECT ... FROM users WHERE username = %s
UsersByUsername(username) == {u \in users : u.username = username}

\* SELECT id FROM users WHERE email = %s
UsersByEmail(email) == {u \in users : u.email = email}

\* SELECT ... FROM chat_sessions WHERE user_id = %s
SessionsOf(user_id) == {s \in chat_sessions : s.user_id = user_id}

\* SELECT ... FROM chat_messages WHERE session_id = %s
MessagesOf(session_id) == {m \in chat_messages : m.session_id = session_id}

\* All the sequences that list every element of S once.
Orderings(S) ==
  {p \in [1..Cardinality(S) -> S] : \A i, j \in 1..Cardinality(S) : i # j => p[i] # p[j]}

\* The SELECT without ORDER BY: the rows in any order.
Unordered(rows) == Orderings(rows)

\* ORDER BY timestamp ASC: the orders PostgreSQL may return (rows with equal
\* timestamps come in either order)
OrderByTimestampAsc(rows) ==
  {p \in Orderings(rows) :
     \A i, j \in 1..Len(p) : i < j => p[i].timestamp <= p[j].timestamp}

\* ORDER BY created_at DESC
OrderByCreatedAtDesc(rows) ==
  {p \in Orderings(rows) :
     \A i, j \in 1..Len(p) : i < j => p[i].created_at >= p[j].created_at}

\* SELECT ... FROM chat_messages WHERE session_id = %s ORDER BY timestamp ASC
SelectMessages(session_id) == OrderByTimestampAsc(MessagesOf(session_id))

\* The SELECT without ORDER BY created_at DESC: any session of the user.
AnySession(user_id) == SessionsOf(user_id)

\* SELECT id FROM chat_sessions WHERE user_id = %s ORDER BY created_at DESC LIMIT 1
MostRecentSessions(user_id) ==
  {s \in SessionsOf(user_id) : \A o \in SessionsOf(user_id) : o.created_at <= s.created_at}

\* The SELECT without its condition on user_id.
OwnedSessionAnyUser(session_id, user_id) ==
  {s \in chat_sessions : s.id = session_id}

\* SELECT id FROM chat_sessions WHERE id = %s AND user_id = %s
OwnedSession(session_id, user_id) ==
  {s \in chat_sessions : s.id = session_id /\ s.user_id = user_id}

\* A users table without the UNIQUE constraint on username.
UniqueViolationOff(username) == FALSE

\* users.username is UNIQUE: the INSERT of a second row with the name fails
UniqueViolation(username) == UsersByUsername(username) # {}

\* chat_messages.session_id REFERENCES chat_sessions(id): a NULL passes
ForeignKeyViolation(session_id) ==
  session_id # None /\ \A s \in chat_sessions : s.id # session_id

\* INSERT INTO users (username, password, email) VALUES (...) RETURNING id
UserRow(id, username, hashed_password, email) ==
  [id |-> id, username |-> username, password |-> hashed_password, email |-> email]

\* The INSERT without the user_id column.
SessionRowUnowned(id, user_id, now) == [id |-> id, user_id |-> None, created_at |-> now]

\* INSERT INTO chat_sessions (user_id) VALUES (%s) RETURNING id
SessionRow(id, user_id, now) == [id |-> id, user_id |-> user_id, created_at |-> now]

\* The INSERT without the session_id column.
MessageRowNoSession(id, session_id, user_id, message, response, now) ==
  [id |-> id, session_id |-> None, user_id |-> user_id,
   message |-> message, response |-> response, timestamp |-> now]

\* INSERT INTO chat_messages (session_id, user_id, message, response) VALUES (...)
MessageRow(id, session_id, user_id, message, response, now) ==
  [id |-> id, session_id |-> session_id, user_id |-> user_id,
   message |-> message, response |-> response, timestamp |-> now]

\* A store that keeps one exchange for each session: the last write wins.
LastWriteWins(row) ==
  {m \in chat_messages : m.session_id # row.session_id} \cup {row}

\* The table after the INSERT is committed: the rows that were there, and the
\* new one.
InsertMessage(row) == chat_messages \cup {row}

\* conn.rollback() in an except clause raises in its turn when the connection
\* is broken, and the exception leaves the handler
AfterRollback(outcome) == IF outcome = "lost" THEN "exception" ELSE "error"

\* A database failure happens (get_db_connection() returns None, a statement or
\* a commit raises): the run has room for MaxFaults of them.
Fault == faults < MaxFaults /\ faults' = faults + 1
NoFault == faults' = faults

\* Client c, who has no request in progress, sends a request.
Begin(c) ==
  /\ last = NoResponse
  /\ pc[c] = "idle"
  /\ requests < MaxRequests
  /\ requests' = requests + 1

\* The request of client c that stands at `at` takes its next step.
Step(c, at) ==
  /\ last = NoResponse
  /\ pc[c] = at
  /\ UNCHANGED requests

\* A route without the decorator.
LoginNotRequired(c) == TRUE

\* @login_required: 'user_id' in session
LoginRequired(c) == session[c].user_id # None

Protected == {"home", "ask", "switch_session", "clear_history", "new_session"}

\* return redirect(url_for('login', next=request.url))
RedirectToLogin(c, op) ==
  /\ ~LoginRequired(c)
  /\ last' = Response(c, op, "redirect", "login")
  /\ UNCHANGED <<db, seqs, clock, model, session, pc, req, faults>>

\* Time passes.
Tick ==
  /\ last = NoResponse
  /\ clock < MaxClock
  /\ clock' = clock + 1
  /\ last' = NoResponse
  /\ UNCHANGED <<db, seqs, model, session, pc, req, faults, requests>>

\* ------------------------------------------------------------------ logout
logout(c) ==
  /\ Begin(c)
  /\ session' = [session EXCEPT ![c] = EmptySession]
  /\ last' = Response(c, "logout", "ok", "logged out")
  /\ UNCHANGED <<db, seqs, clock, model, pc, req, faults>>


\* -------------------------------------------------------------------- home
\* render_template('index.html', chat_sessions=..., chat_history=...)
Rendered(c, sessions_rendered, current_session_messages) ==
  [Response(c, "home", "ok", "index.html") EXCEPT
     !.for_session = session[c].session_id,
     !.messages = current_session_messages,
     !.lists = sessions_rendered]

home(c) ==
  /\ Begin(c)
  /\ \/ RedirectToLogin(c, "home")
     \/ /\ LoginRequired(c)
        /\ UNCHANGED <<db, seqs, clock, model, session, pc, req>>
        /\ LET user_id == session[c].user_id
               current_session_id == session[c].session_id
           IN
           \* the loop runs over n sessions; with n below the number of sessions
           \* the next query raised (with n = 0: no connection, or the first query)
           \E sessions \in OrderByCreatedAtDesc(SessionsOf(user_id)) :
           \E n \in 0..Len(sessions) :
           \E fetched \in [1..n -> UNION {SelectMessages(s.id) : s \in SessionsOf(user_id)}] :
             /\ \A i \in 1..n : fetched[i] \in SelectMessages(sessions[i].id)
             /\ IF n < Len(sessions) THEN Fault ELSE NoFault
             /\ LET sessions_rendered ==
                      [i \in 1..n |-> [session_id |-> sessions[i].id, messages |-> fetched[i]]]
                    current == {i \in 1..n : sessions[i].id = current_session_id}
                IN last' = Rendered(c, sessions_rendered,
                                    IF current = {} THEN <<>>
                                    ELSE fetched[CHOOSE i \in current : TRUE])

\* ------------------------------------------------------------------- login
login(c, username_in, password) ==
  /\ Begin(c)
  /\ UNCHANGED <<users, chat_messages, users_id_seq, chat_messages_id_seq,
                 clock, model, pc, req>>
  /\ LET username == Strip(username_in)
         found == {u \in UsersByUsername(username) : check_password_hash(u.password, password)}
     IN
     \/ /\ username = <<>> \/ password = <<>>
        /\ last' = Response(c, "login", "error", "Please enter both username and password")
        /\ NoFault
        /\ UNCHANGED <<chat_sessions, chat_sessions_id_seq, session>>
     \/ /\ username # <<>> /\ password # <<>>
        /\ \/ /\ Fault
              /\ last' = Response(c, "login", "error", "Database connection error")
              /\ UNCHANGED <<chat_sessions, chat_sessions_id_seq, session>>
           \* SELECT * FROM users raises
           \/ /\ Fault
              /\ last' = Response(c, "login", "error", "Login error")
              /\ UNCHANGED <<chat_sessions, chat_sessions_id_seq, session>>
           \/ /\ found = {}
              /\ NoFault
              /\ last' = Response(c, "login", "error", "Invalid username or password")
              /\ UNCHANGED <<chat_sessions, chat_sessions_id_seq, session>>
           \/ \E user \in found :
              LET logged_in == [session[c] EXCEPT !.user_id = user.id,
                                                  !.username = user.username]
              IN
              \* the query of the most recent session, or the INSERT of one, raises
              \/ /\ Fault
                 /\ session' = [session EXCEPT ![c] = logged_in]
                 /\ last' = Response(c, "login", "error", "Login error")
                 /\ UNCHANGED <<chat_sessions, chat_sessions_id_seq>>
              \/ \E existing_session \in MostRecentSessions(user.id) :
                 \E commit \in StatementOutcomes :
                   /\ IF commit = "ok" THEN NoFault ELSE Fault
                   /\ session' = [session EXCEPT ![c] =
                                    [logged_in EXCEPT !.session_id = existing_session.id]]
                   /\ last' = IF commit = "ok"
                              THEN Response(c, "login", "ok", "redirect")
                              ELSE Response(c, "login", "error", "Login error")
                   /\ UNCHANGED <<chat_sessions, chat_sessions_id_seq>>
              \/ /\ MostRecentSessions(user.id) = {}
                 /\ chat_sessions_id_seq < MaxSessionId
                 /\ \E commit \in StatementOutcomes :
                    LET session_id == chat_sessions_id_seq + 1 IN
                      /\ IF commit = "ok" THEN NoFault ELSE Fault
                      /\ chat_sessions_id_seq' = session_id
                      /\ session' = [session EXCEPT ![c] =
                                       [logged_in EXCEPT !.session_id = session_id]]
                      /\ chat_sessions' = IF commit = "ok"
                                          THEN chat_sessions \cup {SessionRow(session_id, user.id, clock)}
                                          ELSE chat_sessions
                      /\ last' = IF commit = "ok"
                                 THEN Response(c, "login", "ok", "redirect")
                                 ELSE Response(c, "login", "error", "Login error")

\* ---------------------------------------------------------------- register
\* The request ends: its locals are dropped.
Done(c) ==
  /\ pc' = [pc EXCEPT ![c] = "idle"]
  /\ req' = [req EXCEPT ![c] = NoRequest]

\* A response of /register, with the username it was asked for.
RegisterResponse(c, username, kind, reason) ==
  [Response(c, "register", kind, reason) EXCEPT !.username = username]

\* POST /register up to the two SELECTs that look for the username and the email
register(c, username_in, password, email_in) ==
  /\ Begin(c)
  /\ UNCHANGED <<db, seqs, clock, model, session>>
  /\ LET username == Strip(username_in)
         email == Strip(email_in)
     IN
     \/ /\ username = <<>> \/ password = <<>>
        /\ NoFault
        /\ last' = RegisterResponse(c, username, "error", "Please enter both username and password")
        /\ UNCHANGED <<pc, req>>
     \/ /\ username # <<>> /\ password # <<>>
        /\ Len(password) < MinPasswordLen
        /\ NoFault
        /\ last' = RegisterResponse(c, username, "error", "Password must be at least 6 characters long")
        /\ UNCHANGED <<pc, req>>
     \/ /\ username # <<>> /\ password # <<>>
        /\ Len(password) >= MinPasswordLen
        /\ \/ /\ Fault
              /\ last' = RegisterResponse(c, username, "error", "Database connection error")
              /\ UNCHANGED <<pc, req>>
           \* one of the SELECTs raises
           \/ \E outcome \in StatementOutcomes \ {"ok"} :
                /\ Fault
                /\ last' = RegisterResponse(c, username, AfterRollback(outcome), "Registration error")
                /\ UNCHANGED <<pc, req>>
           \/ /\ UsersByUsername(username) # {}
              /\ NoFault
              /\ last' = RegisterResponse(c, username, "error", "Username already exists")
              /\ UNCHANGED <<pc, req>>
           \/ /\ UsersByUsername(username) = {}
              /\ email # <<>>
              /\ UsersByEmail(email) # {}
              /\ NoFault
              /\ last' = RegisterResponse(c, username, "error", "Email already exists")
              /\ UNCHANGED <<pc, req>>
           \/ /\ UsersByUsername(username) = {}
              /\ email # <<>> => UsersByEmail(email) = {}
              /\ NoFault
              /\ pc' = [pc EXCEPT ![c] = "register_checked"]
              /\ req' = [req EXCEPT ![c] = [NoRequest EXCEPT !.username = username,
                                                             !.password = generate_password_hash(password),
                                                             !.email = email,
                                                             !.conn = "open",
                                                             !.tx_time = clock]]
              /\ last' = NoResponse

\* POST /register from the INSERT of the user to the response
register_insert(c) ==
  /\ Step(c, "register_checked")
  /\ Done(c)
  /\ UNCHANGED <<chat_messages, chat_messages_id_seq, clock, model>>
  /\ LET username == req[c].username
         user_id == users_id_seq + 1
         session_id == chat_sessions_id_seq + 1
     IN
     \* the INSERT of the user raises before it takes an id
     \/ \E outcome \in StatementOutcomes \ {"ok"} :
          /\ Fault
          /\ last' = RegisterResponse(c, username, AfterRollback(outcome), "Registration error")
          /\ UNCHANGED <<users, chat_sessions, users_id_seq, chat_sessions_id_seq, session>>
     \* a row with the name was committed since the SELECT
     \/ /\ UniqueViolation(username)
        /\ users_id_seq < MaxUserId
        /\ NoFault
        /\ users_id_seq' = user_id
        /\ last' = RegisterResponse(c, username, "error", "Registration error")
        /\ UNCHANGED <<users, chat_sessions, chat_sessions_id_seq, session>>
     \* the INSERT of the session raises
     \/ /\ ~UniqueViolation(username)
        /\ users_id_seq < MaxUserId
        /\ Fault
        /\ users_id_seq' = user_id
        /\ \E outcome \in StatementOutcomes \ {"ok"} :
             last' = RegisterResponse(c, username, AfterRollback(outcome), "Registration error")
        /\ UNCHANGED <<users, chat_sessions, chat_sessions_id_seq, session>>
     \* session['session_id'] is set, then conn.commit() raises
     \/ /\ ~UniqueViolation(username)
        /\ users_id_seq < MaxUserId
        /\ chat_sessions_id_seq < MaxSessionId
        /\ Fault
        /\ users_id_seq' = user_id
        /\ chat_sessions_id_seq' = session_id
        /\ session' = [session EXCEPT ![c].session_id = session_id]
        /\ \E outcome \in StatementOutcomes \ {"ok"} :
             last' = RegisterResponse(c, username, AfterRollback(outcome), "Registration error")
        /\ UNCHANGED <<users, chat_sessions>>
     \/ /\ ~UniqueViolation(username)
        /\ users_id_seq < MaxUserId
        /\ chat_sessions_id_seq < MaxSessionId
        /\ NoFault
        /\ users_id_seq' = user_id
        /\ chat_sessions_id_seq' = session_id
        /\ users' = users \cup {UserRow(user_id, username, req[c].password, req[c].email)}
        /\ chat_sessions' = chat_sessions \cup {SessionRow(session_id, user_id, req[c].tx_time)}
        /\ session' = [session EXCEPT ![c] = [user_id |-> user_id, username |-> username,
                                              session_id |-> session_id]]
        /\ last' = RegisterResponse(c, username, "ok", "redirect")


\* --------------------------------------------------------------------- ask
\* the loop over cur.fetchall(): a user turn and a model turn for each row
RECURSIVE ChatHistory(_)
ChatHistory(rows) ==
  IF rows = <<>> THEN <<>>
  ELSE <<[role |-> "user", parts |-> Head(rows).message],
         [role |-> "model", parts |-> Head(rows).response]>> \o ChatHistory(Tail(rows))

\* data.get('message', '').strip()
UserInput(has_message, message) == Strip(IF has_message THEN message ELSE <<>>)

\* user_input.lower() == 'exit'
IsExit(user_input) == Lower(user_input) = Exit

ChatSessionEnded == <<"Chat session ended.">>

\* A response of /ask, with the request's body.
AskResponse(c, is_json, has_message, message, kind, reason) ==
  [Response(c, "ask", kind, reason) EXCEPT
     !.is_json = is_json, !.has_message = has_message, !.message = message]

\* jsonify({"response": response_text, "timestamp": ...})
Reply(c, saved) ==
  [AskResponse(c, TRUE, req[c].has_message, req[c].message, "response", "reply") EXCEPT
     !.body = req[c].response_text, !.for_session = req[c].session_id,
     !.ai_calls = req[c].ai_calls, !.saved = saved]

\* The exception swallowed: the handler answers as if the model had replied.
AskErrorAsReply(c, ai_calls, conn_open) ==
  [AskResponse(c, TRUE, req[c].has_message, req[c].message, "response", "reply") EXCEPT
     !.ai_calls = ai_calls, !.conn_open = conn_open]

\* except Exception as e: return jsonify({"error": error_message})
AskError(c, ai_calls, conn_open) ==
  [AskResponse(c, TRUE, req[c].has_message, req[c].message, "error", "Error") EXCEPT
     !.ai_calls = ai_calls, !.conn_open = conn_open]

\* POST /ask up to the load of the history
ask(c, is_json, has_message, message) ==
  /\ Begin(c)
  /\ \/ RedirectToLogin(c, "ask")
     \/ /\ LoginRequired(c)
        /\ UNCHANGED <<db, seqs, clock, model, session>>
        /\ LET user_input == UserInput(has_message, message)
               session_id == session[c].session_id
               begun == [NoRequest EXCEPT !.user_id = session[c].user_id,
                                          !.session_id = session_id,
                                          !.user_input = user_input,
                                          !.has_message = has_message,
                                          !.message = message]
           IN
           \/ /\ ~is_json
              /\ NoFault
              /\ last' = AskResponse(c, is_json, has_message, message, "error", "Request must be JSON")
              /\ UNCHANGED <<pc, req>>
           \/ /\ is_json
              /\ user_input = <<>>
              /\ NoFault
              /\ last' = AskResponse(c, is_json, has_message, message, "error", "No message provided")
              /\ UNCHANGED <<pc, req>>
           \/ /\ is_json
              /\ user_input # <<>>
              /\ IsExit(user_input)
              /\ NoFault
              /\ last' = [AskResponse(c, is_json, has_message, message, "response", "exit") EXCEPT
                            !.body = ChatSessionEnded, !.for_session = session_id]
              /\ UNCHANGED <<pc, req>>
           \/ /\ is_json
              /\ user_input # <<>>
              /\ ~IsExit(user_input)
              /\ ~model
              /\ NoFault
              /\ last' = AskResponse(c, is_json, has_message, message, "error", "AI model not initialized")
              /\ UNCHANGED <<pc, req>>
           \/ /\ is_json
              /\ user_input # <<>>
              /\ ~IsExit(user_input)
              /\ model
              /\ pc' = [pc EXCEPT ![c] = "ask_loaded"]
              /\ \/ /\ Fault
                    /\ req' = [req EXCEPT ![c] = begun]
                    /\ last' = NoResponse
                 \* the SELECT raises: the transaction is aborted, or the connection lost
                 \/ \E outcome \in {"aborted", "lost"} :
                      /\ Fault
                      /\ req' = [req EXCEPT ![c] = [begun EXCEPT !.conn = outcome]]
                      /\ last' = NoResponse
                 \/ \E rows \in SelectMessages(session_id) :
                      /\ NoFault
                      /\ req' = [req EXCEPT ![c] = [begun EXCEPT !.conn = "open",
                                                                 !.tx_time = clock,
                                                                 !.chat_history = ChatHistory(rows)]]
                      /\ last' = [AskResponse(c, is_json, has_message, message, "pending", "history loaded") EXCEPT
                                    !.for_session = session_id, !.messages = rows]

\* model.start_chat(history=chat_history); chat_session.send_message(user_input)
ask_model(c) ==
  /\ Step(c, "ask_loaded")
  /\ UNCHANGED <<db, seqs, clock, model, session, faults>>
  \* the call raises: the connection, when there is one, is never closed
  /\ \/ /\ Done(c)
        /\ last' = AskError(c, 1, req[c].conn # "none")
     \/ \E response_text \in Replies :
          /\ pc' = [pc EXCEPT ![c] = "ask_replied"]
          /\ req' = [req EXCEPT ![c].response_text = response_text, ![c].ai_calls = 1]
          /\ last' = NoResponse

\* POST /ask from the INSERT of the message to the response
ask_save(c) ==
  /\ Step(c, "ask_replied")
  /\ Done(c)
  /\ UNCHANGED <<users, chat_sessions, users_id_seq, chat_sessions_id_seq,
                 clock, model, session>>
  /\ LET r == req[c]
         id == chat_messages_id_seq + 1
     IN
     \/ /\ r.conn = "none"
        /\ NoFault
        /\ last' = Reply(c, FALSE)
        /\ UNCHANGED <<chat_messages, chat_messages_id_seq>>
     \* the transaction was aborted by the SELECT: the INSERT raises, rollback works
     \/ /\ r.conn = "aborted"
        /\ NoFault
        /\ last' = Reply(c, FALSE)
        /\ UNCHANGED <<chat_messages, chat_messages_id_seq>>
     \* the connection was lost: conn.cursor() raises, and conn.rollback() after it
     \/ /\ r.conn = "lost"
        /\ NoFault
        /\ last' = AskError(c, r.ai_calls, FALSE)
        /\ UNCHANGED <<chat_messages, chat_messages_id_seq>>
     \* the session row is gone: the INSERT raises after it took an id
     \/ /\ r.conn = "open"
        /\ ForeignKeyViolation(r.session_id)
        /\ chat_messages_id_seq < MaxMessageId
        /\ NoFault
        /\ chat_messages_id_seq' = id
        /\ last' = Reply(c, FALSE)
        /\ UNCHANGED chat_messages
     \* the INSERT or conn.commit() raises
     \/ /\ r.conn = "open"
        /\ Fault
        /\ \E outcome \in StatementOutcomes \ {"ok"} :
             last' = IF AfterRollback(outcome) = "exception"
                     THEN AskError(c, r.ai_calls, FALSE)
                     ELSE Reply(c, FALSE)
        /\ UNCHANGED <<chat_messages, chat_messages_id_seq>>
     \/ /\ r.conn = "open"
        /\ ~ForeignKeyViolation(r.session_id)
        /\ chat_messages_id_seq < MaxMessageId
        /\ NoFault
        /\ chat_messages_id_seq' = id
        /\ chat_messages' = InsertMessage(
             MessageRow(id, r.session_id, r.user_id, r.user_input, r.response_text, r.tx_time))
        /\ last' = Reply(c, TRUE)

\* ---------------------------------------------------------- switch_session
SessionIdInputs == 0..MaxSessionId

\* A response of /switch_session, with the session id it was asked for.
SwitchResponse(c, session_id, kind, reason) ==
  [Response(c, "switch_session", kind, reason) EXCEPT !.session_arg = session_id]

switch_session(c, is_json, session_id) ==
  /\ Begin(c)
  /\ \/ RedirectToLogin(c, "switch_session")
     \/ /\ LoginRequired(c)
        /\ UNCHANGED <<db, seqs, clock, model, pc, req>>
        /\ \/ /\ ~is_json
              /\ NoFault
              /\ last' = SwitchResponse(c, None, "error", "Request must be JSON")
              /\ UNCHANGED session
           \* if not session_id
           \/ /\ is_json
              /\ session_id = None
              /\ NoFault
              /\ last' = SwitchResponse(c, session_id, "error", "No session ID provided")
              /\ UNCHANGED session
           \/ /\ is_json
              /\ session_id # None
              /\ \/ /\ Fault
                    /\ last' = SwitchResponse(c, session_id, "error", "Database error")
                    /\ UNCHANGED session
                 \* the SELECT of the session raises
                 \/ /\ Fault
                    /\ last' = SwitchResponse(c, session_id, "error", "exception")
                    /\ UNCHANGED session
                 \/ /\ OwnedSession(session_id, session[c].user_id) = {}
                    /\ NoFault
                    /\ last' = SwitchResponse(c, session_id, "error", "Invalid session")
                    /\ UNCHANGED session
                 \/ /\ OwnedSession(session_id, session[c].user_id) # {}
                    /\ session' = [session EXCEPT ![c].session_id = session_id]
                    \* the SELECT of the messages raises
                    /\ \/ /\ Fault
                          /\ last' = SwitchResponse(c, session_id, "error", "exception")
                       \/ \E messages \in SelectMessages(session_id) :
                            /\ NoFault
                            /\ last' = [SwitchResponse(c, session_id, "ok", "success") EXCEPT
                                          !.for_session = session_id, !.messages = messages]

\* ----------------------------------------------------------- clear_history
\* DELETE FROM chat_sessions WHERE user_id = %s
SessionsAfterDelete(user_id) == chat_sessions \ SessionsOf(user_id)

\* DELETE FROM chat_messages WHERE user_id = %s, and the rows that
\* ON DELETE CASCADE removes with the sessions
MessagesAfterDelete(user_id) ==
  {m \in chat_messages :
     /\ m.user_id # user_id
     /\ \A s \in SessionsOf(user_id) : m.session_id # s.id}

\* jsonify({"status": "success", "message": "Chat history cleared"}), unless
\* conn.rollback() raised
Cleared(c, outcome) ==
  IF AfterRollback(outcome) = "exception"
  THEN Response(c, "clear_history", "exception", "rollback")
  ELSE Response(c, "clear_history", "ok", "success")

clear_history(c) ==
  /\ Begin(c)
  /\ \/ RedirectToLogin(c, "clear_history")
     \/ /\ LoginRequired(c)
        /\ UNCHANGED <<users, users_id_seq, chat_messages_id_seq, clock, model, pc, req>>
        /\ LET user_id == session[c].user_id
               session_id == chat_sessions_id_seq + 1
           IN
           \* no connection
           \/ /\ Fault
              /\ last' = Cleared(c, "ok")
              /\ UNCHANGED <<chat_sessions, chat_messages, chat_sessions_id_seq, session>>
           \* a DELETE or the first conn.commit() raises
           \/ \E outcome \in StatementOutcomes \ {"ok"} :
                /\ Fault
                /\ last' = Cleared(c, outcome)
                /\ UNCHANGED <<chat_sessions, chat_messages, chat_sessions_id_seq, session>>
           \* the deletes are committed, the INSERT raises
           \/ \E outcome \in StatementOutcomes \ {"ok"} :
                /\ Fault
                /\ chat_messages' = MessagesAfterDelete(user_id)
                /\ chat_sessions' = SessionsAfterDelete(user_id)
                /\ last' = Cleared(c, outcome)
                /\ UNCHANGED <<chat_sessions_id_seq, session>>
           \* session['session_id'] is set, then the second conn.commit() raises
           \/ /\ chat_sessions_id_seq < MaxSessionId
              /\ \E outcome \in StatementOutcomes \ {"ok"} :
                   /\ Fault
                   /\ chat_messages' = MessagesAfterDelete(user_id)
                   /\ chat_sessions' = SessionsAfterDelete(user_id)
                   /\ chat_sessions_id_seq' = session_id
                   /\ session' = [session EXCEPT ![c].session_id = session_id]
                   /\ last' = Cleared(c, outcome)
           \/ /\ chat_sessions_id_seq < MaxSessionId
              /\ NoFault
              /\ chat_messages' = MessagesAfterDelete(user_id)
              /\ chat_sessions' = SessionsAfterDelete(user_id) \cup
                                    {SessionRow(session_id, user_id, clock)}
              /\ chat_sessions_id_seq' = session_id
              /\ session' = [session EXCEPT ![c].session_id = session_id]
              /\ last' = Cleared(c, "ok")

\* ------------------------------------------------------------- new_session
new_session(c) ==
  /\ Begin(c)
  /\ \/ RedirectToLogin(c, "new_session")
     \/ /\ LoginRequired(c)
        /\ UNCHANGED <<users, chat_messages, users_id_seq, chat_messages_id_seq,
                       clock, model, pc, req>>
        /\ LET user_id == session[c].user_id
               session_id == chat_sessions_id_seq + 1
           IN
           \* no connection, or the INSERT raises: session_id is unbound at the return
           \/ /\ Fault
              /\ last' = Response(c, "new_session", "exception", "UnboundLocalError")
              /\ UNCHANGED <<chat_sessions, chat_sessions_id_seq, session>>
           \* session['session_id'] is set, then conn.commit() raises
           \/ /\ chat_sessions_id_seq < MaxSessionId
              /\ \E outcome \in StatementOutcomes \ {"ok"} :
                   /\ Fault
                   /\ chat_sessions_id_seq' = session_id
                   /\ session' = [session EXCEPT ![c].session_id = session_id]
                   /\ last' = IF AfterRollback(outcome) = "exception"
                              THEN Response(c, "new_session", "exception", "rollback")
                              ELSE [Response(c, "new_session", "ok", "success") EXCEPT
                                      !.for_session = session_id]
                   /\ UNCHANGED chat_sessions
           \/ /\ chat_sessions_id_seq < MaxSessionId
              /\ NoFault
              /\ chat_sessions_id_seq' = session_id
              /\ chat_sessions' = chat_sessions \cup {SessionRow(session_id, user_id, clock)}
              /\ session' = [session EXCEPT ![c].session_id = session_id]
              /\ last' = [Response(c, "new_session", "ok", "success") EXCEPT
                            !.for_session = session_id]

\* ----------------------------------------------------------- specification
\* The response leaves the server.
Respond ==
  /\ last # NoResponse
  /\ last' = NoResponse
  /\ UNCHANGED <<db, seqs, clock, model, session, pc, req, faults, requests>>

Next ==
  \/ Respond
  \/ Tick
  \/ \E c \in Clients : home(c)
  \/ \E c \in Clients, username \in UsernameInputs, password \in PasswordInputs :
       login(c, username, password)
  \/ \E c \in Clients, username \in UsernameInputs, password \in PasswordInputs,
        email \in EmailInputs :
       register(c, username, password, email)
  \/ \E c \in Clients : register_insert(c)
  \/ \E c \in Clients : logout(c)
  \/ \E c \in Clients, is_json \in BOOLEAN, has_message \in BOOLEAN, message \in MessageInputs :
       ask(c, is_json, has_message, message)
  \/ \E c \in Clients : ask_model(c)
  \/ \E c \in Clients : ask_save(c)
  \/ \E c \in Clients, is_json \in BOOLEAN, session_id \in SessionIdInputs :
       switch_session(c, is_json, session_id)
  \/ \E c \in Clients : clear_history(c)
  \/ \E c \in Clients : new_session(c)

Spec == Init /\ [][Next]_vars


\* ------------------------------------------------------------------ claims
\* The rows that a sequence of rows lists.
Range(rows) == {rows[i] : i \in 1..Len(rows)}

\* C1: no two user rows share a username, in every interleaving of the
\* register requests; a register request for a username that a user row
\* already holds fails and leaves the users and the sessions as they were,
\* whether the row was there at the SELECT or came between it and the INSERT.
C1_UsernameUnique ==
  /\ [](\A u, v \in users : u.username = v.username => u = v)
  /\ [][(last'.op = "register" /\ \E u \in users : u.username = last'.username)
        => /\ last'.kind \in {"error", "exception"}
           /\ pc'[last'.client] = "idle"
           /\ users' = users /\ chat_sessions' = chat_sessions]_vars

\* a register request lost the race for its username: the INSERT failed on the
\* UNIQUE constraint
C1_Witness ==
  /\ last.op = "register"
  /\ last.reason = "Registration error"
  /\ faults = 0
  /\ \E u \in users : u.username = last.username


\* C2: a switch_session request of a logged-in client for a session id that
\* is not the id of a session of the client's user (another user's, or none)
\* is answered with an error, and leaves the client's cookie and every row as
\* they were.
C2_SwitchRejected ==
  [][(/\ last'.op = "switch_session"
      /\ session[last'.client].user_id # None
      /\ \A s \in chat_sessions :
           ~(s.id = last'.session_arg /\ s.user_id = session[last'.client].user_id))
     => /\ last'.kind = "error"
        /\ session' = session
        /\ UNCHANGED db]_vars

\* the session asked for exists and belongs to another user
C2_Witness ==
  /\ last.op = "switch_session"
  /\ last.reason = "Invalid session"
  /\ \E s \in chat_sessions : s.id = last.session_arg

\* C3: when clear_history answers with its success status, the client's user
\* owns exactly one session, which has no message and is the client's active
\* session, and no message row carries the user's id.
C3_ClearLeavesOneEmptySession ==
  (last.op = "clear_history" /\ last.kind = "ok")
  => LET user_id == session[last.client].user_id IN
       /\ Cardinality(SessionsOf(user_id)) = 1
       /\ \A s \in SessionsOf(user_id) :
            MessagesOf(s.id) = {} /\ s.id = session[last.client].session_id
       /\ \A m \in chat_messages : m.user_id # user_id

\* C4, as claimed: every ask request that returns a response adds exactly one
\* message row, in the client's active session, whose row count grows by one.
C4_ReplyAddsOneRow ==
  [][(last'.op = "ask" /\ last'.kind = "response")
     => LET session_id == session[last'.client].session_id IN
        \E row \in chat_messages' \ chat_messages :
          /\ chat_messages' = chat_messages \cup {row}
          /\ row.session_id = session_id
          /\ Cardinality({m \in chat_messages' : m.session_id = session_id})
               = Cardinality(MessagesOf(session_id)) + 1]_vars

\* C4, amended: an ask request that returns the model's reply with its INSERT
\* and commit done (a connection whose history SELECT worked, no failure, and
\* the session id of the cookie either absent or that of a session row still
\* there) adds exactly one message row; the row carries the session id of the
\* client's cookie, and the number of rows with that session id grows by one
\* over the insert. Every other ask request that returns a response (the
\* notice for "exit", a reply that could not be saved) adds no row.
C4_SavedReplyAddsOneRow ==
  [][(last'.op = "ask" /\ last'.kind = "response")
     => LET c == last'.client
            session_id == session[c].session_id
        IN IF /\ last'.reason = "reply"
              /\ req[c].conn = "open"
              /\ ~ForeignKeyViolation(session_id)
              /\ faults' = faults
           THEN \E row \in chat_messages' \ chat_messages :
                  /\ chat_messages' = chat_messages \cup {row}
                  /\ row.session_id = session_id
                  /\ row.message = req[c].user_input
                  /\ row.response = last'.body
                  /\ Cardinality({m \in chat_messages' : m.session_id = session_id})
                       = Cardinality(MessagesOf(session_id)) + 1
           ELSE chat_messages' = chat_messages]_vars

\* a second reply was saved in a session
C4_Witness ==
  /\ last.op = "ask"
  /\ last.kind = "response"
  /\ last.saved
  /\ Cardinality(MessagesOf(last.for_session)) = 2

\* The message of the request body is missing, empty or only whitespace.
Blank(has_message, message) ==
  ~has_message \/ \A i \in 1..Len(message) : message[i] = " "

\* C5: an ask request of a logged-in client whose message is missing, empty
\* or only whitespace is answered with an error at once: no request with such
\* a message is ever on its way to the model, the model was not called, and
\* the message rows are as they were.
C5_BlankMessageRejected ==
  /\ [](\A c \in Clients :
          pc[c] \in {"ask_loaded", "ask_replied"}
          => ~Blank(req[c].has_message, req[c].message))
  /\ [][(/\ last'.op = "ask"
         /\ session[last'.client].user_id # None
         /\ Blank(last'.has_message, last'.message))
        => /\ last'.kind = "error"
           /\ last'.ai_calls = 0
           /\ pc[last'.client] = "idle" /\ pc'[last'.client] = "idle"
           /\ chat_messages' = chat_messages]_vars

\* a message of one space was refused
C5_Witness ==
  /\ last.op = "ask"
  /\ last.reason = "No message provided"
  /\ last.has_message
  /\ last.message = <<" ">>


\* C6: a request for a protected operation (home, ask, switch_session,
\* clear_history, new_session) of a client whose cookie holds no user id is
\* redirected to login and the handler does not run: the rows, the sequences
\* and the client's cookie are as they were, no request is left in progress,
\* and the response carries no row.
C6_LoginRequired ==
  /\ [](\A c \in Clients : pc[c] \in {"ask_loaded", "ask_replied"} => req[c].user_id # None)
  /\ [][(last'.op \in Protected /\ session[last'.client].user_id = None)
        => /\ last'.kind = "redirect"
           /\ UNCHANGED <<db, seqs, session, pc, req>>
           /\ last'.messages = <<>> /\ last'.lists = <<>> /\ last'.body = <<>>]_vars

\* a client that is not logged in asked to clear a history that exists
C6_Witness ==
  /\ last.op = "clear_history"
  /\ last.kind = "redirect"
  /\ session[last.client].user_id = None
  /\ chat_messages # {}

\* rows come in the order of their timestamps
SortedByTimestamp(rows) ==
  \A i, j \in 1..Len(rows) : i < j => rows[i].timestamp <= rows[j].timestamp

\* rows lists each message row of the session once, and nothing else
ExactlyMessagesOf(rows, session_id) ==
  /\ Len(rows) = Cardinality(MessagesOf(session_id))
  /\ Range(rows) = MessagesOf(session_id)

C8_ModelFailure ==
  [][\A c \in Clients :
       (pc[c] = "ask_loaded" /\ pc'[c] = "idle")
       => /\ last'.client = c /\ last'.op = "ask"
          /\ last'.kind = "error"
          /\ last'.ai_calls <= 1
          /\ chat_messages' = chat_messages /\ chat_messages_id_seq' = chat_messages_id_seq]_vars

\* the call of the model raised after the history was loaded
C8_Witness ==
  /\ last.op = "ask"
  /\ last.kind = "error"
  /\ last.ai_calls = 1
  /\ last.conn_open

\* C9: when the model replied and the row of the exchange is not stored, the
\* request still ends with the reply as a normal response, and the message
\* rows are as they were.
C9_ReplyDespitePersistFailure ==
  [][\A c \in Clients :
       (pc[c] = "ask_replied" /\ pc'[c] = "idle" /\ ~last'.saved)
       => /\ last'.client = c /\ last'.op = "ask"
          /\ last'.kind = "response"
          /\ last'.body = req[c].response_text
          /\ chat_messages' = chat_messages]_vars

\* C10: a register request that succeeds adds exactly one user row and
\* exactly one session row, the session is the only one of the new user, and
\* the client's cookie holds the new user's id and name and the new session's
\* id.
C10_RegisterCreates ==
  [][(last'.op = "register" /\ last'.kind = "ok")
     => \E u \in users' \ users, s \in chat_sessions' \ chat_sessions :
          /\ users' = users \cup {u}
          /\ chat_sessions' = chat_sessions \cup {s}
          /\ u.username = last'.username
          /\ s.user_id = u.id
          /\ {x \in chat_sessions' : x.user_id = u.id} = {s}
          /\ session'[last'.client] =
               [user_id |-> u.id, username |-> u.username, session_id |-> s.id]
          /\ chat_messages' = chat_messages]_vars

\* a second user registered
C10_Witness ==
  /\ last.op = "register"
  /\ last.kind = "ok"
  /\ Cardinality(users) = 2
  /\ session[last.client].user_id = 2

\* C11: no two user rows hold the same non-empty email, in every interleaving
\* of the register requests.
C11_EmailUnique ==
  \A u, v \in users : (u.email # <<>> /\ u.email = v.email) => u = v

\* C12: a login that succeeds leaves the client logged in as a user whose name
\* and password were given. When that user owned a session, no session row is
\* added and the active session is one of the user's sessions with the latest
\* created_at; when the user owned none, exactly one session row is added, it
\* is the user's, and it is the active session.
C12_LoginAttachesSession ==
  [][(last'.op = "login" /\ last'.kind = "ok")
     => LET c == last'.client
            user_id == session'[c].user_id
        IN /\ \E u \in users : u.id = user_id /\ u.username = session'[c].username
           /\ users' = users /\ chat_messages' = chat_messages
           /\ IF SessionsOf(user_id) # {}
              THEN /\ chat_sessions' = chat_sessions
                   /\ \E s \in SessionsOf(user_id) :
                        /\ s.id = session'[c].session_id
                        /\ \A o \in SessionsOf(user_id) : o.created_at <= s.created_at
              ELSE \E s \in chat_sessions' \ chat_sessions :
                     /\ chat_sessions' = chat_sessions \cup {s}
                     /\ s.user_id = user_id
                     /\ s.id = session'[c].session_id]_vars

\* a login of a user who owns an older and a newer session
C12_Witness ==
  /\ last.op = "login"
  /\ last.kind = "ok"
  /\ \E s, o \in SessionsOf(session[last.client].user_id) :
       /\ o.created_at < s.created_at
       /\ s.id = session[last.client].session_id

\* C13: a new_session request of a logged-in client adds exactly one session
\* row, owned by the client's user and without messages, and makes it the
\* client's active session; every row that was there is as it was.
C13_NewSessionCreates ==
  [][(last'.op = "new_session" /\ session[last'.client].user_id # None)
     => LET c == last'.client IN
        \E s \in chat_sessions' \ chat_sessions :
          /\ chat_sessions' = chat_sessions \cup {s}
          /\ s.user_id = session[c].user_id
          /\ \A m \in chat_messages' : m.session_id # s.id
          /\ session'[c].session_id = s.id
          /\ session'[c].user_id = session[c].user_id
          /\ chat_messages' = chat_messages
          /\ users' = users]_vars

\* C14: logout empties the client's cookie and changes no row; a client whose
\* cookie is empty gets a user id only by a login or a register that
\* succeeds, and until then each of its protected requests is redirected to
\* login.
C14_LoggedOutUntilLogin ==
  [][/\ last'.op = "logout"
        => session'[last'.client] = EmptySession /\ UNCHANGED db
     /\ \A c \in Clients :
          (session[c] = EmptySession /\ session'[c].user_id # None)
          => /\ last'.client = c
             /\ last'.op \in {"login", "register"}
             /\ last'.kind = "ok"
     /\ (last'.op \in Protected /\ session[last'.client] = EmptySession)
        => last'.kind = "redirect"]_vars

\* C15: no response is returned while a database connection that its request
\* acquired is still open.
C15_ConnectionsReleased == ~last.conn_open

\* C16: when the connection cannot be obtained or a statement fails during a
\* clear_history or a new_session request, the response is an error (not a
\* success, not an uncaught exception), and the rows and the client's cookie
\* are as they were.
C16_DatabaseFailureReported ==
  [][(last'.op \in {"clear_history", "new_session"} /\ faults' # faults)
     => /\ last'.kind = "error"
        /\ UNCHANGED db
        /\ session' = session]_vars

\* C17: every message row has a message text and a response text, references
\* a session row that exists, and carries the user id of the owner of that
\* session.
C17_MessageRowIntegrity ==
  \A m \in chat_messages :
    /\ m.message # <<>>
    /\ m.response # <<>>
    /\ \E s \in chat_sessions : s.id = m.session_id /\ s.user_id = m.user_id

\* C18: the history that an ask request is about to pass to the model, for an
\* active session with n message rows, has exactly 2n turns: taking the rows
\* in the order of their timestamps, turn 2i-1 is a user turn with the i-th
\* row's message and turn 2i is a model turn with the i-th row's response;
\* the new message is kept apart from the history.
C18_HistoryTurns ==
  [][\A c \in Clients :
       (pc[c] = "idle" /\ pc'[c] = "ask_loaded")
       => LET chat_history == req'[c].chat_history
              session_rows == MessagesOf(session[c].session_id)
              n == Cardinality(session_rows)
          IN /\ Len(chat_history) = 2 * n
             /\ \E rows \in [1..n -> session_rows] :
                  /\ Range(rows) = session_rows
                  /\ SortedByTimestamp(rows)
                  /\ \A i \in 1..n :
                       /\ chat_history[2 * i - 1] = [role |-> "user", parts |-> rows[i].message]
                       /\ chat_history[2 * i] = [role |-> "model", parts |-> rows[i].response]
             /\ req'[c].user_input = Strip(req'[c].message)
             /\ req'[c].user_input # <<>>]_vars

\* C19: the inserts of ask requests are independent, in every interleaving of
\* the requests' steps (load of the history, call of the model, insert). The
\* insert step of a request whose model call succeeded keeps every row that
\* was there as it was, and, when the request has a connection on which the
\* history SELECT worked, the session row is still there and nothing raises,
\* it adds a row with the request's message and reply, in the request's
\* session and under a new id. So when two requests for the same user and
\* session overlap, both rows are stored. No two rows share an id.
C19_ConcurrentAsksBothStored ==
  /\ [](\A m, o \in chat_messages : m.id = o.id => m = o)
  /\ [][\A c \in Clients :
          (pc[c] = "ask_replied" /\ pc'[c] = "idle")
          => /\ chat_messages \subseteq chat_messages'
             /\ (/\ req[c].conn = "open"
                 /\ ~ForeignKeyViolation(req[c].session_id)
                 /\ faults' = faults)
                => \E row \in chat_messages' \ chat_messages :
                     /\ row.session_id = req[c].session_id
                     /\ row.user_id = req[c].user_id
                     /\ row.message = req[c].user_input
                     /\ row.response = req[c].response_text
                     /\ \A m \in chat_messages : m.id # row.id]_vars

\* two requests of two clients of one user overlapped in one session: the
\* request that began later stored its row first, and both rows are there
C19_Witness ==
  /\ last.op = "ask"
  /\ last.saved
  /\ \E m, o \in MessagesOf(last.for_session) :
       /\ m.id < o.id
       /\ m.timestamp > o.timestamp
       /\ m.user_id = o.user_id

\* C20: the active session id of every client that is logged in is the id of
\* a session row that exists and is owned by the client's user.
C20_ActiveSessionValid ==
  \A c \in Clients :
    session[c].user_id # None
    => \E s \in chat_sessions :
         s.id = session[c].session_id /\ s.user_id = session[c].user_id

\* C21: a register or login request that fails leaves the user, session and
\* message rows as they were, and leaves the user id and the active session
\* id of the client's cookie as they were.
C21_FailedAuthChangesNothing ==
  [][(last'.op \in {"register", "login"} /\ last'.kind # "ok")
     => /\ UNCHANGED db
        /\ session'[last'.client].user_id = session[last'.client].user_id
        /\ session'[last'.client].session_id = session[last'.client].session_id]_vars

\* The message rows of a user: the rows that carry the user's id, and the rows
\* in the user's sessions.
MessagesOfUser(user_id) ==
  {m \in chat_messages :
     m.user_id = user_id \/ \E s \in SessionsOf(user_id) : s.id = m.session_id}

\* C22: a clear_history, new_session or ask request of a client logged in as
\* one user leaves every other user's session rows, message rows and clients'
\* active sessions as they were.
C22_OtherUsersUntouched ==
  [][last'.op \in {"clear_history", "new_session", "ask"}
     => \A u \in users :
          u.id # session[last'.client].user_id
          => /\ {s \in chat_sessions' : s.user_id = u.id} = SessionsOf(u.id)
             /\ {m \in chat_messages' :
                   m.user_id = u.id \/ \E s \in SessionsOf(u.id) : s.id = m.session_id}
                  = MessagesOfUser(u.id)
             /\ \A d \in Clients :
                  session[d].user_id = u.id => session'[d] = session[d]]_vars

====
